---- MODULE Spec2Model ----
(***************************************************************************)
(* Model of backup.py: one run of the script is a straight line of steps   *)
(* (logging setup at import, makedirs, container lookup, "bench backup"    *)
(* inside the container, listing + "docker cp" of the database artifact,   *)
(* listing + "docker cp" of the files artifact).  The container runtime,   *)
(* the host file system and the wall clock are the environment: every      *)
(* outcome they can produce is a nondeterministic choice.                  *)
(*                                                                         *)
(* Text is modelled as sequences of one-character strings.  The token      *)
(* "0xFF" stands for a byte that is not valid UTF-8.                       *)
(***************************************************************************)
EXTENDS Integers, Sequences, FiniteSets, TLC

(***************************************************************************)
(* Bounds of the model.                                                    *)
(***************************************************************************)
\* Runs of the script that are followed, one after the other.
MaxRuns == 2
\* Seconds the wall clock may advance over the whole behaviour.
MaxTicks == 1
\* Modification times of the container's files range over 1..MaxMtime.
MaxMtime == 2
\* Wall clock at the start, in seconds since 1970-01-01 00:00:00 local time
\* (2024-12-31 23:59:59, so that a tick crosses every field of the timestamp).
ClockStart == 1735689599

(***************************************************************************)
(* Configuration (backup.py lines 13-14) and the strings built from it.    *)
(***************************************************************************)
SITE_NAME == <<"f", "r", "o", "n", "t", "e", "n", "d">>
HOST_BACKUP_DIR ==
    <<"/", "h", "o", "m", "e", "/", "u", "b", "u", "n", "t", "u", "/",
      "f", "r", "a", "p", "p", "e", "_", "b", "a", "c", "k", "u", "p", "s">>

\* f"/home/frappe/frappe-bench/sites/{SITE_NAME}/private/backups"
container_backup_dir ==
    <<"/", "h", "o", "m", "e", "/", "f", "r", "a", "p", "p", "e", "/",
      "f", "r", "a", "p", "p", "e", "-", "b", "e", "n", "c", "h", "/",
      "s", "i", "t", "e", "s", "/">>
    \o SITE_NAME
    \o <<"/", "p", "r", "i", "v", "a", "t", "e", "/",
         "b", "a", "c", "k", "u", "p", "s">>

\* r'\-database\.sql\.gz$' : every character is a literal, "$" anchors the end
\* of the line.
DbPattern ==
    [lits |-> <<"-", "d", "a", "t", "a", "b", "a", "s", "e", ".",
                "s", "q", "l", ".", "g", "z">>,
     eol |-> TRUE]

\* r'\-files\.tar$'
FilesPattern ==
    [lits |-> <<"-", "f", "i", "l", "e", "s", ".", "t", "a", "r">>,
     eol |-> TRUE]

PatternOf(artifact) == IF artifact = "db" THEN DbPattern ELSE FilesPattern

(***************************************************************************)
(* The files the container's backup directory may hold.  "bench backup"    *)
(* names its artifacts <stamp>-<site>-database.sql.gz and ...-files.tar;   *)
(* stamp and site are abbreviated to one letter.                           *)
(***************************************************************************)
NameDbA == <<"a">> \o DbPattern.lits
NameDbB == <<"b">> \o DbPattern.lits
NameFilesA == <<"a">> \o FilesPattern.lits

Names == {NameDbA, NameDbB, NameFilesA}

\* A directory content: the modification time of every file, 0 for a file
\* that is not there.
Dirs == [Names -> 0..MaxMtime]

EmptyDir == [n \in Names |-> 0]

Present(d) == {n \in Names : d[n] > 0}

(***************************************************************************)
(* ls -t DIR | grep 'PATTERN' | head -n 1        (backup.py line 37)       *)
(***************************************************************************)
\* The pattern matches the line when its literals occur in it and, with "$",
\* end where the line ends.
GrepMatch(line, pat) ==
    \E start \in 1..(Len(line) - Len(pat.lits) + 1) :
        /\ \A i \in 1..Len(pat.lits) : line[start + i - 1] = pat.lits[i]
        /\ pat.eol => start + Len(pat.lits) - 1 = Len(line)

\* ls -t: the names of the directory, newest first.  The order of files with
\* equal modification times is left to the listing: every such order is a
\* possible outcome.
LsT(d) ==
    {order \in [1..Cardinality(Present(d)) -> Present(d)] :
        /\ \A i, j \in DOMAIN order : i # j => order[i] # order[j]
        /\ \A i, j \in DOMAIN order : i < j => d[order[i]] >= d[order[j]]}

Grep(lines, pat) == SelectSeq(lines, LAMBDA line : GrepMatch(line, pat))

\* Variant: the last line instead of the first (tail -n 1).
Head1_Last(lines) == IF lines = <<>> THEN <<>> ELSE <<lines[Len(lines)]>>

Head1(lines) == IF lines = <<>> THEN <<>> ELSE <<lines[1]>>

\* The bytes the pipeline writes: each line followed by a newline.
Unlines(lines) ==
    IF lines = <<>> THEN <<>> ELSE lines[1] \o <<"\n">>

Pipeline(order, pat) == Unlines(Head1(Grep(order, pat)))

(***************************************************************************)
(* bytes.decode('utf-8') and str.strip()          (backup.py line 43)      *)
(***************************************************************************)
Decodable(bytes) == \A i \in 1..Len(bytes) : bytes[i] # "0xFF"

Whitespace == {" ", "\n", "\t", "\r"}

RECURSIVE LStrip(_)
LStrip(s) ==
    IF s # <<>> /\ s[1] \in Whitespace THEN LStrip(Tail(s)) ELSE s

RECURSIVE RStrip(_)
RStrip(s) ==
    IF s # <<>> /\ s[Len(s)] \in Whitespace
    THEN RStrip(SubSeq(s, 1, Len(s) - 1))
    ELSE s

Strip(s) == RStrip(LStrip(s))

(***************************************************************************)
(* An optional value: None is <<>>, a value x is <<x>>.                    *)
(***************************************************************************)
None == <<>>

Some(x) == <<x>>

\* Python's truth value of "None or a string": None and "" are false.
Truthy(opt) == opt # None /\ opt[1] # <<>>

(***************************************************************************)
(* container.exec_run of the listing               (backup.py line 39)     *)
(* raised: the call threw; otherwise exit_code and the combined stdout and *)
(* stderr of the shell.                                                    *)
(***************************************************************************)
ExecResult(raised, exit_code, output) ==
    [raised |-> raised, exit_code |-> exit_code, output |-> output]

\* What the shell's stderr adds to the output when ls cannot read the
\* directory ("ls: cannot access ..."), abbreviated.
LsErr == <<"l", "s", ":", " ", "E", "\n">>

\* The pipeline ran to its end: exit code 0 (that of head) and its output.
NormalListings(d, pat) ==
    {ExecResult(FALSE, 0, Pipeline(order, pat)) : order \in LsT(d)}

\* Everything else the runtime can hand back: the call throws, the shell
\* ends with a non-zero code, or the output is not a file name.
AbnormalListings ==
    {ExecResult(TRUE, 0, <<>>)}
    \cup {ExecResult(FALSE, 1, LsErr)}
    \cup {ExecResult(FALSE, 0, o) : o \in {<<" ", "\n">>, <<"0xFF">>, LsErr}}

ListingOutcomes(d, pat) == NormalListings(d, pat) \cup AbnormalListings

(***************************************************************************)
(* find_latest_backup                              (backup.py lines 29-53) *)
(* The value returned and the lines logged, for one outcome of exec_run.   *)
(***************************************************************************)
\* The lines find_latest_backup logs: the search line and its verdict.
Searched(level, message) ==
    << <<"INFO", "searching">>, <<level, message>> >>

FindResult(ret, lines) == [raises |-> FALSE, ret |-> ret, log |-> lines]

\* Variant: without the "if filename:" test of line 44.
find_latest_backup_NoEmptyTest(out) ==
    IF out.raised
    THEN FindResult(None, Searched("ERROR", "listing_error"))
    ELSE IF out.exit_code = 0 /\ out.output # <<>>
    THEN IF ~Decodable(out.output)
         THEN FindResult(None, Searched("ERROR", "listing_error"))
         ELSE FindResult(Some(Strip(out.output)),
                         Searched("INFO", "found_latest"))
    ELSE FindResult(None, Searched("WARNING", "no_backup_file"))

find_latest_backup(out) ==
    IF out.raised
    THEN \* exec_run raises inside the try: caught at line 50
         FindResult(None, Searched("ERROR", "listing_error"))
    ELSE IF out.exit_code = 0 /\ out.output # <<>>
    THEN IF ~Decodable(out.output)
         THEN \* decode raises inside the try: caught at line 50
              FindResult(None, Searched("ERROR", "listing_error"))
         ELSE IF Strip(out.output) # <<>>
              THEN FindResult(Some(Strip(out.output)),
                              Searched("INFO", "found_latest"))
              ELSE FindResult(None, Searched("WARNING", "no_backup_file"))
    ELSE FindResult(None, Searched("WARNING", "no_backup_file"))

(***************************************************************************)
(* datetime.datetime.now().strftime("%Y%m%d_%H%M%S")   (lines 110, 131)    *)
(* now: seconds since 1970-01-01 00:00:00 of the local wall clock.         *)
(***************************************************************************)
Digits == <<"0", "1", "2", "3", "4", "5", "6", "7", "8", "9">>

\* n written in decimal, zero-padded to at least w digits.
RECURSIVE Pad(_, _)
Pad(n, w) ==
    IF w <= 1 /\ n < 10
    THEN <<Digits[n + 1]>>
    ELSE Pad(n \div 10, w - 1) \o <<Digits[(n % 10) + 1]>>

\* The proleptic Gregorian date of day number z (0 = 1970-01-01).
CivilFromDays(z) ==
    LET zz == z + 719468
        era == zz \div 146097
        doe == zz - era * 146097
        yoe == (doe - doe \div 1460 + doe \div 36524 - doe \div 146096) \div 365
        doy == doe - (365 * yoe + yoe \div 4 - yoe \div 100)
        mp == (5 * doy + 2) \div 153
        d == doy - (153 * mp + 2) \div 5 + 1
        m == IF mp < 10 THEN mp + 3 ELSE mp - 9
        y == yoe + era * 400 + (IF m <= 2 THEN 1 ELSE 0)
    IN  [year |-> y, month |-> m, day |-> d]

\* Variant: the format "%Y%m%d_%H%M", without the seconds.
Strftime_NoSeconds(now) ==
    LET date == CivilFromDays(now \div 86400)
        secs == now % 86400
    IN  Pad(date.year, 4) \o Pad(date.month, 2) \o Pad(date.day, 2)
        \o <<"_">>
        \o Pad(secs \div 3600, 2) \o Pad((secs % 3600) \div 60, 2)

Strftime(now) ==
    LET date == CivilFromDays(now \div 86400)
        secs == now % 86400
    IN  Pad(date.year, 4) \o Pad(date.month, 2) \o Pad(date.day, 2)
        \o <<"_">>
        \o Pad(secs \div 3600, 2) \o Pad((secs % 3600) \div 60, 2)
        \o Pad(secs % 60, 2)

(***************************************************************************)
(* os.path.join(a, b) on POSIX                     (lines 111, 132)        *)
(***************************************************************************)
PathJoin(a, b) ==
    IF b # <<>> /\ b[1] = "/" THEN b
    ELSE IF a = <<>> \/ a[Len(a)] = "/" THEN a \o b
    ELSE a \o <<"/">> \o b

\* os.path.join(HOST_BACKUP_DIR, f"{current_date}_{file}")
HostPath(current_date, file) ==
    PathJoin(HOST_BACKUP_DIR, current_date \o <<"_">> \o file)

\* f"{container_backup_dir}/{file}"
ContainerPath(file) == container_backup_dir \o <<"/">> \o file

(***************************************************************************)
(* State.                                                                  *)
(***************************************************************************)
VARIABLES
    pc,                 \* the step the current run is about to take
    run,                \* number of the current run, 1..MaxRuns
    exitCode,           \* exit code of the current run's process, -1 while it runs
    hostDir,            \* HOST_BACKUP_DIR: "present", "absent" (could be
                        \* created) or "uncreatable" (absent, makedirs fails)
    hostFiles,          \* paths of the artifacts written under HOST_BACKUP_DIR
    clock,              \* the local wall clock, in seconds
    dir,                \* content of the container's backup directory
    client,             \* docker.from_env(): "unset", "ok" or "raise"
    lookup,             \* client.containers.get(): "pending" or its outcome
    log,                \* lines logged by the current run, <<level, message>>
    ops,                \* external operations of the current run, in order
    execs,              \* each exec_run of the current run and its outcome
    cps,                \* each "docker cp" of the current run
    db_backup_file,     \* main's local, None until found
    files_backup_file   \* main's local, None until found

vars ==
    <<pc, run, exitCode, hostDir, hostFiles, clock, dir, client, lookup, log,
      ops, execs, cps, db_backup_file, files_backup_file>>

host == <<hostDir, hostFiles>>

docker == <<client, lookup>>

locals == <<db_backup_file, files_backup_file>>

Init ==
    /\ pc = "import"
    /\ run = 1
    /\ exitCode = -1
    /\ hostDir \in {"present", "absent", "uncreatable"}
    /\ hostFiles = {}
    /\ clock = ClockStart
    /\ dir = EmptyDir
    /\ client = "unset"
    /\ lookup = "pending"
    /\ log = <<>>
    /\ ops = <<>>
    /\ execs = <<>>
    /\ cps = <<>>
    /\ db_backup_file = None
    /\ files_backup_file = None

\* The process ends with this exit code.
Exit(code) ==
    /\ pc' = "exited"
    /\ exitCode' = code

\* The run goes on with the step at label.
Goto(label) ==
    /\ pc' = label
    /\ UNCHANGED exitCode

\* sys.exit(1) after logging an error: SystemExit is no Exception, so neither
\* "except Exception" (lines 85, 147) catches it.
LogErrorAndExit(message) ==
    /\ log' = Append(log, <<"ERROR", message>>)
    /\ Exit(1)

\* An exception no handler catches: traceback on stderr, nothing is logged,
\* the interpreter exits with code 1.
Uncaught ==
    /\ log' = log
    /\ Exit(1)

(***************************************************************************)
(* logging.basicConfig(handlers=[FileHandler(LOG_FILE), ...])  lines 20-27 *)
(* FileHandler opens LOG_FILE for appending when it is constructed: with   *)
(* no HOST_BACKUP_DIR the open raises at import, before any makedirs.      *)
(***************************************************************************)
SetupLogging ==
    /\ pc = "import"
    /\ IF hostDir = "present"
       THEN Goto("guard") /\ log' = log
       ELSE Uncaught
    /\ UNCHANGED <<run, host, clock, dir, docker, ops, execs, cps, locals>>

\* os.makedirs(HOST_BACKUP_DIR, exist_ok=True): the directory afterwards, or
\* "raise" when it cannot be created.
Makedirs(d) ==
    IF d = "uncreatable" THEN "raise" ELSE "present"

(***************************************************************************)
(* if __name__ == "__main__": os.makedirs(...)             lines 153-156   *)
(***************************************************************************)
GuardMakedirs ==
    /\ pc = "guard"
    /\ IF Makedirs(hostDir) = "raise"
       THEN Uncaught /\ UNCHANGED hostDir
       ELSE /\ hostDir' = Makedirs(hostDir)
            /\ Goto("main")
            /\ log' = log
    /\ UNCHANGED <<run, hostFiles, clock, dir, docker, ops, execs, cps, locals>>

(***************************************************************************)
(* main(): start line and makedirs                         lines 57-64     *)
(***************************************************************************)
MainMakedirs ==
    /\ pc = "main"
    /\ IF Makedirs(hostDir) = "raise"
       THEN /\ log' = log \o << <<"INFO", "starting">>,
                                <<"ERROR", "makedirs_failed">> >>
            /\ Exit(1)
            /\ UNCHANGED hostDir
       ELSE /\ hostDir' = Makedirs(hostDir)
            /\ log' = Append(log, <<"INFO", "starting">>)
            /\ Goto("from_env")
    /\ UNCHANGED <<run, hostFiles, clock, dir, docker, ops, execs, cps, locals>>

(***************************************************************************)
(* client = docker.from_env()                              line 68         *)
(* An exception here is caught by the outer handler, lines 147-150.        *)
(***************************************************************************)
FromEnv ==
    /\ pc = "from_env"
    /\ \E outcome \in {"ok", "raise"} :
        /\ client' = outcome
        /\ IF outcome = "raise"
           THEN LogErrorAndExit("unexpected_error")
           ELSE Goto("locate") /\ log' = log
    /\ UNCHANGED <<run, host, clock, dir, lookup, ops, execs, cps, locals>>

(***************************************************************************)
(* container = client.containers.get(...)                  lines 72-87     *)
(***************************************************************************)
LocateOutcomes == {"running", "not_running", "not_found", "error"}

\* Variant: the handler logs and forgets to exit.
OnNotFound_Continue ==
    /\ log' = Append(log, <<"ERROR", "container_not_found">>)
    /\ Goto("backup")

\* except docker.errors.NotFound, lines 82-84
OnNotFound == LogErrorAndExit("container_not_found")

LocateContainer ==
    /\ pc = "locate"
    /\ ops' = Append(ops, "get")
    /\ \E outcome \in LocateOutcomes :
        /\ lookup' = outcome
        /\ CASE outcome = "running" ->
                   /\ log' = Append(log, <<"INFO", "found_container">>)
                   /\ Goto("backup")
             [] outcome = "not_running" ->
                   LogErrorAndExit("container_not_running")
             [] outcome = "not_found" -> OnNotFound
             [] outcome = "error" -> LogErrorAndExit("docker_error")
    /\ UNCHANGED <<run, host, clock, dir, client, execs, cps, locals>>

(***************************************************************************)
(* container.exec_run(cmd=backup_command, user='frappe')   lines 90-104    *)
(* The command is the environment's: it may leave any content in the       *)
(* backup directory (the old one included) and any bytes in its output.    *)
(* output.decode('utf-8') in the f-strings of lines 100 and 104 is         *)
(* evaluated whatever the log level; when it raises, the outer handler     *)
(* (lines 147-150) ends the run.                                           *)
(***************************************************************************)
BackupOutcomes ==
    {ExecResult(TRUE, 0, <<>>)}
    \cup {ExecResult(FALSE, c, o) :
            c \in {0, 1}, o \in {<<"o", "k", "\n">>, <<"0xFF">>}}

\* One entry of execs: which exec_run, its outcome, and for a listing what
\* find_latest_backup returned and logged.
ExecEntry(what, out, ret, lines) ==
    [what |-> what, out |-> out, ret |-> ret, log |-> lines]

RunBackup ==
    /\ pc = "backup"
    /\ \E out \in BackupOutcomes, d \in Dirs :
        /\ ops' = Append(ops, "exec_backup")
        /\ execs' = Append(execs, ExecEntry("backup", out, None, <<>>))
        /\ IF out.raised
           THEN /\ d = dir
                /\ dir' = dir
                /\ LogErrorAndExit("unexpected_error")
           ELSE /\ dir' = d
                /\ IF out.exit_code # 0
                   THEN IF Decodable(out.output)
                        THEN /\ log' = log \o << <<"ERROR", "backup_failed">>,
                                                 <<"ERROR", "backup_output">> >>
                             /\ Goto("db_find")
                        ELSE /\ log' = log \o << <<"ERROR", "backup_failed">>,
                                                 <<"ERROR", "unexpected_error">> >>
                             /\ Exit(1)
                   ELSE IF Decodable(out.output)
                        THEN /\ log' = Append(log, <<"INFO", "backup_completed">>)
                             /\ Goto("db_find")
                        ELSE /\ log' = log \o << <<"INFO", "backup_completed">>,
                                                 <<"ERROR", "unexpected_error">> >>
                             /\ Exit(1)
    /\ UNCHANGED <<run, host, clock, docker, cps, locals>>

(***************************************************************************)
(* x_backup_file = find_latest_backup(container, dir, pattern)             *)
(* The whole call: the exec_run of the listing and what the function makes *)
(* of its outcome.  found: where main goes on a truthy result, missing:    *)
(* where it goes otherwise.  Were the function to raise, main's outer      *)
(* handler (lines 147-150) would end the run.                              *)
(***************************************************************************)
FindStep(artifact, found, missing) ==
    \E out \in ListingOutcomes(dir, PatternOf(artifact)) :
        LET r == find_latest_backup(out) IN
        /\ ops' = Append(ops, "exec_list_" \o artifact)
        /\ execs' = Append(execs, ExecEntry(artifact, out, r.ret, r.log))
        /\ IF r.raises
           THEN /\ log' = log \o r.log \o << <<"ERROR", "unexpected_error">> >>
                /\ Exit(1)
                /\ UNCHANGED locals
           ELSE /\ log' = log \o r.log
                /\ IF artifact = "db"
                   THEN db_backup_file' = r.ret /\ UNCHANGED files_backup_file
                   ELSE files_backup_file' = r.ret /\ UNCHANGED db_backup_file
                /\ Goto(IF Truthy(r.ret) THEN found ELSE missing)
        /\ UNCHANGED <<run, host, clock, dir, docker, cps>>

(***************************************************************************)
(* subprocess.run(["docker", "cp", src, dst], check=True)                  *)
(* "ok": docker cp wrote dst (replacing a file already there), which takes *)
(* a source file that exists in the container;                             *)
(* "nonzero": CalledProcessError; "raise": any other Exception.            *)
(***************************************************************************)
CopyOutcomes(file) ==
    IF file \in Present(dir)
    THEN {"ok", "nonzero", "raise"}
    ELSE {"nonzero", "raise"}

\* Variant: a failed copy ends the run.
AfterCopyFailure_Abort(next) == Exit(1)

\* Variant: a failed copy is tried again.
AfterCopyFailure_Retry(next) == Goto(pc)

\* Both except clauses (lines 121-125, 139-143) log and fall through to the
\* statement after the try.
AfterCopyFailure(next) == Goto(next)

CopyStep(artifact, file, next) ==
    \E outcome \in CopyOutcomes(file) :
        LET current_date == Strftime(clock)
            host_path == HostPath(current_date, file)
            container_path == ContainerPath(file)
        IN
        /\ ops' = Append(ops, "cp_" \o artifact)
        /\ cps' = Append(cps, [artifact |-> artifact, file |-> file,
                               now |-> clock, src |-> container_path,
                               dst |-> host_path, outcome |-> outcome])
        /\ hostFiles' =
              IF outcome = "ok" THEN hostFiles \cup {host_path} ELSE hostFiles
        /\ log' = log \o
              CASE outcome = "ok" ->
                     << <<"INFO", "copying">>, <<"INFO", "copied">> >>
                [] outcome = "nonzero" ->
                     << <<"INFO", "copying">>, <<"ERROR", "copy_failed">>,
                        <<"ERROR", "copy_stderr">> >>
                [] outcome = "raise" ->
                     << <<"INFO", "copying">>, <<"ERROR", "copy_unexpected">> >>
        /\ IF outcome = "ok" THEN Goto(next) ELSE AfterCopyFailure(next)
        /\ UNCHANGED <<run, hostDir, clock, dir, docker, execs, locals>>

\* lines 108-109
FindDb == pc = "db_find" /\ FindStep("db", "db_copy", "files_find")

\* lines 110-125
CopyDb == pc = "db_copy" /\ CopyStep("db", db_backup_file[1], "files_find")

\* lines 129-130
FindFiles == pc = "files_find" /\ FindStep("files", "files_copy", "finish")

\* lines 131-143
CopyFiles ==
    pc = "files_copy" /\ CopyStep("files", files_backup_file[1], "finish")

\* line 145, and the normal end of the process
Finish ==
    /\ pc = "finish"
    /\ log' = Append(log, <<"INFO", "finished">>)
    /\ Exit(0)
    /\ UNCHANGED <<run, host, clock, dir, docker, ops, execs, cps, locals>>

(***************************************************************************)
(* The environment.  The wall clock advances; it is read only by the two   *)
(* copy steps, so it is let advance just before them and after a run.      *)
(* The script is started again once a run has ended: the host directory,   *)
(* the container and the clock keep their state.                           *)
(***************************************************************************)
Tick ==
    /\ pc \in {"db_copy", "files_copy", "exited"}
    /\ clock < ClockStart + MaxTicks
    /\ clock' = clock + 1
    /\ UNCHANGED <<pc, run, exitCode, host, dir, docker, log, ops, execs, cps,
                   locals>>

StartNextRun ==
    /\ pc = "exited"
    /\ run < MaxRuns
    /\ run' = run + 1
    /\ pc' = "import"
    /\ exitCode' = -1
    /\ client' = "unset"
    /\ lookup' = "pending"
    /\ log' = <<>>
    /\ ops' = <<>>
    /\ execs' = <<>>
    /\ cps' = <<>>
    /\ db_backup_file' = None
    /\ files_backup_file' = None
    /\ UNCHANGED <<host, clock, dir>>

\* One run of the script.
Next ==
    \/ SetupLogging
    \/ GuardMakedirs
    \/ MainMakedirs
    \/ FromEnv
    \/ LocateContainer
    \/ RunBackup
    \/ FindDb
    \/ CopyDb
    \/ FindFiles
    \/ CopyFiles
    \/ Finish
    \/ Tick

Spec == Init /\ [][Next]_vars

\* The script run again and again, up to MaxRuns times.
NextRuns == Next \/ StartNextRun

SpecRuns == Init /\ [][NextRuns]_vars

(***************************************************************************)
(* Properties.                                                             *)
(***************************************************************************)
Has(op) == \E i \in DOMAIN ops : ops[i] = op

Logged(level, message) == \E i \in DOMAIN log : log[i] = <<level, message>>

InLines(lines, level, message) ==
    \E i \in DOMAIN lines : lines[i] = <<level, message>>

\* The exec_run calls of the current run that are listings.
Listings == {i \in DOMAIN execs : execs[i].what \in {"db", "files"}}

\* The local of main that holds the file found for the artifact.
FoundFor(artifact) ==
    IF artifact = "db" THEN db_backup_file ELSE files_backup_file

Copied(artifact) == \E i \in DOMAIN cps : cps[i].artifact = artifact

\* C1: when the container lookup finds no container, the process has exited
\* with code 1 and the run has issued no docker cp and no exec in the
\* container: the lookup is its only external operation.
C1_AbsentContainerExitsWithoutWork ==
    lookup = "not_found" =>
        /\ pc = "exited"
        /\ exitCode = 1
        /\ ops = <<"get">>
        /\ execs = <<>>
        /\ cps = <<>>

C1_Witness ==
    /\ lookup = "not_found"
    /\ pc = "exited"
    /\ Logged("ERROR", "container_not_found")

DbCopyFailed ==
    \E i \in DOMAIN cps : cps[i].artifact = "db" /\ cps[i].outcome # "ok"

\* C2: once the copy of the database artifact has failed (docker cp non-zero
\* or any exception), the run goes on to the files step: the listing for the
\* files pattern is executed, the files copy is attempted when the listing
\* returned a file name, and the run ends normally.
C2_FilesStepAfterDbCopyFailure ==
    DbCopyFailed =>
        /\ pc \in {"files_find", "files_copy", "finish", "exited"}
        /\ pc # "files_find" => Has("exec_list_files")
        /\ pc \in {"finish", "exited"} =>
              (Truthy(files_backup_file) => Copied("files"))
        /\ pc = "exited" => exitCode = 0 /\ Logged("INFO", "finished")

C2_Witness ==
    /\ DbCopyFailed
    /\ pc = "exited"
    /\ Has("exec_list_files")
    /\ Copied("files")

BackupFailed ==
    \E i \in DOMAIN execs :
        /\ execs[i].what = "backup"
        /\ ~execs[i].out.raised
        /\ execs[i].out.exit_code # 0

\* C3: when the backup command returns a non-zero exit code an error is
\* logged and the run is not aborted: it ends normally after both listings
\* have run and every file they found has been handed to docker cp.
C3_BackupFailureDoesNotAbort ==
    BackupFailed =>
        /\ Logged("ERROR", "backup_failed")
        /\ pc = "exited" =>
              /\ exitCode = 0
              /\ Has("exec_list_db")
              /\ Has("exec_list_files")
              /\ Truthy(db_backup_file) => Copied("db")
              /\ Truthy(files_backup_file) => Copied("files")

\* The fatal errors: no usable host directory, no connection to the runtime
\* (from_env, the lookup or the exec of the backup command throws), container
\* not found or not running.
Fatal ==
    \/ hostDir # "present"
    \/ client = "raise"
    \/ lookup \in {"not_found", "not_running", "error"}
    \/ \E i \in DOMAIN execs : execs[i].what = "backup" /\ execs[i].out.raised

\* C4: a process that has ended has exit code 1 after a fatal error and 0
\* otherwise; without a fatal error the run has reached "Backup process
\* finished", whatever recoverable failures it met.
C4_ExitCodeOneIffFatal ==
    pc = "exited" =>
        /\ exitCode \in {0, 1}
        /\ exitCode = 1 <=> Fatal
        /\ ~Fatal => Logged("INFO", "finished")

\* C5: when the host backup directory is missing and cannot be created, the
\* process ends with a non-zero exit code and has logged an error message.
C5_UncreatableDirIsLoggedFatal ==
    (pc = "exited" /\ hostDir = "uncreatable") =>
        /\ exitCode # 0
        /\ \E i \in DOMAIN log : log[i][1] = "ERROR"

AllWhitespace(s) == \A i \in DOMAIN s : s[i] \in Whitespace

\* C6: find_latest_backup never raises (a listing never ends the run), and
\* returns None whenever exec_run threw, the exit code is non-zero, or the
\* output is empty or only whitespace; for a non-zero exit code and for an
\* empty output it logs a warning.
C6_NotFoundIsNoneNeverRaises ==
    \A i \in Listings :
        LET e == execs[i] IN
        /\ ~Logged("ERROR", "unexpected_error")
        /\ (\/ e.out.raised
            \/ e.out.exit_code # 0
            \/ AllWhitespace(e.out.output)) => e.ret = None
        /\ (~e.out.raised /\ (e.out.exit_code # 0 \/ e.out.output = <<>>)) =>
              /\ InLines(e.log, "WARNING", "no_backup_file")
              /\ Logged("WARNING", "no_backup_file")

C6_Witness ==
    /\ pc = "exited"
    /\ exitCode = 0
    /\ \E i \in Listings : execs[i].out.raised /\ execs[i].ret = None
    /\ \E i \in Listings :
          /\ ~execs[i].out.raised
          /\ execs[i].out.exit_code = 0
          /\ execs[i].out.output # <<>>
          /\ AllWhitespace(execs[i].out.output)
          /\ execs[i].ret = None

Matching(d, pat) == {n \in Present(d) : GrepMatch(n, pat)}

\* C7: when the directory holds at least one file matching the pattern and
\* the listing ran normally, find_latest_backup returns one file name: a
\* matching file of the directory whose modification time is the largest
\* among the matching files.
C7_ReturnsNewestMatch ==
    \A i \in Listings :
        LET e == execs[i]
            pat == PatternOf(e.what)
        IN  (Matching(dir, pat) # {} /\ e.out \in NormalListings(dir, pat)) =>
                /\ e.ret # None
                /\ e.ret[1] \in Matching(dir, pat)
                /\ \A m \in Matching(dir, pat) : dir[e.ret[1]] >= dir[m]

C7_Witness ==
    /\ dir[NameDbA] = 1
    /\ dir[NameDbB] = 2
    /\ dir[NameFilesA] = 1
    /\ \E i \in Listings : execs[i].what = "db" /\ execs[i].ret = Some(NameDbB)
    /\ \E i \in Listings :
          execs[i].what = "files" /\ execs[i].ret = Some(NameFilesA)

\* The number a string of decimal digits denotes.
RECURSIVE Number(_)
Number(s) ==
    IF s = <<>> THEN 0
    ELSE 10 * Number(SubSeq(s, 1, Len(s) - 1))
         + (CHOOSE n \in 0..9 : Digits[n + 1] = s[Len(s)])

\* The day number (0 = 1970-01-01) of a proleptic Gregorian date.
DaysFromCivil(y, m, d) ==
    LET yy == IF m <= 2 THEN y - 1 ELSE y
        era == yy \div 400
        yoe == yy - era * 400
        doy == (153 * (IF m > 2 THEN m - 3 ELSE m + 9) + 2) \div 5 + d - 1
        doe == yoe * 365 + yoe \div 4 - yoe \div 100 + doy
    IN  era * 146097 + doe - 719468

\* ts has the form YYYYMMDD_HHMMSS.
IsTimestamp(ts) ==
    /\ Len(ts) = 15
    /\ ts[9] = "_"
    /\ \A i \in (1..15) \ {9} : \E n \in 0..9 : Digits[n + 1] = ts[i]

\* The clock value a timestamp of that form denotes.
TimestampValue(ts) ==
    DaysFromCivil(Number(SubSeq(ts, 1, 4)), Number(SubSeq(ts, 5, 6)),
                  Number(SubSeq(ts, 7, 8))) * 86400
    + Number(SubSeq(ts, 10, 11)) * 3600
    + Number(SubSeq(ts, 12, 13)) * 60
    + Number(SubSeq(ts, 14, 15))

\* C8: every docker cp of a run copies <container_backup_dir>/<filename> to
\* <HOST_BACKUP_DIR>/<timestamp>_<filename>, where filename is what
\* find_latest_backup returned for that artifact in this run and timestamp
\* is YYYYMMDD_HHMMSS of the clock read for that copy.
C8_CopyPaths ==
    \A i \in DOMAIN cps :
        LET c == cps[i]
            base == Len(HOST_BACKUP_DIR)
            ts == SubSeq(c.dst, base + 2, base + 16)
        IN  /\ FoundFor(c.artifact) = Some(c.file)
            /\ \E j \in Listings :
                  execs[j].what = c.artifact /\ execs[j].ret = Some(c.file)
            /\ c.src = container_backup_dir \o <<"/">> \o c.file
            /\ Len(c.dst) = base + 17 + Len(c.file)
            /\ SubSeq(c.dst, 1, base) = HOST_BACKUP_DIR
            /\ c.dst[base + 1] = "/"
            /\ IsTimestamp(ts)
            /\ TimestampValue(ts) = c.now
            /\ c.dst[base + 17] = "_"
            /\ SubSeq(c.dst, base + 18, Len(c.dst)) = c.file

C8_Witness ==
    /\ Len(cps) = 2
    /\ cps[1].artifact = "db"
    /\ cps[1].file = NameDbA
    /\ cps[2].artifact = "files"
    /\ cps[2].file = NameFilesA
    /\ cps[1].now < cps[2].now

\* C9: no docker cp writes to a host path an earlier copy has written: a file
\* of the host backup directory is never overwritten.
C9_NoCopyOverwrites ==
    [][\A i \in DOMAIN cps' :
          (i > Len(cps) /\ cps'[i].outcome = "ok") => cps'[i].dst \notin hostFiles
      ]_vars

\* The one order of a run's external operations.
FullOrder ==
    <<"get", "exec_backup", "exec_list_db", "cp_db", "exec_list_files",
      "cp_files">>

Rank(op) == CHOOSE k \in DOMAIN FullOrder : FullOrder[k] = op

FoundBy(artifact) ==
    \E j \in Listings : execs[j].what = artifact /\ Truthy(execs[j].ret)

\* C10: the external operations of a run follow the one fixed order, each at
\* most once (no retry); no step is taken unless the one it depends on came
\* before it, a copy only after the listing for the same artifact returned a
\* file name; so a run issues at most three execs and at most two copies.
C10_FixedOrderNoRetry ==
    /\ \A i \in DOMAIN ops : \E k \in DOMAIN FullOrder : FullOrder[k] = ops[i]
    /\ \A i, j \in DOMAIN ops : i < j => Rank(ops[i]) < Rank(ops[j])
    /\ ops # <<>> => ops[1] = "get"
    /\ Has("exec_list_db") => Has("exec_backup")
    /\ Has("exec_list_files") => Has("exec_list_db")
    /\ Has("cp_db") => Has("exec_list_db") /\ FoundBy("db")
    /\ Has("cp_files") => Has("exec_list_files") /\ FoundBy("files")
    /\ Len(execs) = Cardinality({i \in DOMAIN ops :
                                    ops[i] \in {"exec_backup", "exec_list_db",
                                                "exec_list_files"}})
    /\ Len(cps) = Cardinality({i \in DOMAIN ops : ops[i] \in {"cp_db", "cp_files"}})
    /\ Len(execs) <= 3
    /\ Len(cps) <= 2

C10_Witness ==
    /\ ops = FullOrder
    /\ pc = "exited"
    /\ \E i \in DOMAIN cps : cps[i].outcome # "ok"

====
